---- MODULE Spec2Model ----
(***************************************************************************)
(* ChimeraTK ApplicationCore ServerHistory module.                         *)
(*                                                                         *)
(* The module registers process variables (by tag in its constructor, or   *)
(* through addSource), owns one ring buffer per element of every           *)
(* registered variable, publishes the buffers once in prepare() and then   *)
(* rotates and republishes them in mainLoop() for every notification that  *)
(* readAny() returns.  The loop starts when every registered variable has  *)
(* received its first value.                                               *)
(***************************************************************************)
EXTENDS Integers, Sequences, FiniteSets, TLC

VARIABLES
  moduleName,            \* ApplicationModule name, getName()
  _historyLength,        \* length of every ring buffer
  _enbaleTimeStamps,     \* one timestamp buffer per data buffer
  _prefix,               \* directory of the generated outputs
  _inputTag,             \* tag that selects variables in the constructor
  model,                 \* process variables of the owning scope's model
  _overallVariableList,  \* std::set of registered names
  _accessorListMap,      \* kind -> list of (ArrayPushInput, HistoryEntry)
  _nameListMap,          \* kind -> list of registered names
  nextId,                \* next TransferElementID handed out
  phase,                 \* "init", "Preparing", "Running", "Failed"
  dataFaultCounter,      \* ApplicationModule data fault counter
  queue,                 \* notifications waiting in the ReadAnyGroup
  pc,                    \* mainLoop position: "readAny" or "update"
  todo,                  \* elements Update still has to process
  now,                   \* last reading of the system clock
  written,               \* writes of the outputs, in the order they were made
  delivered,             \* notifications readAny() has returned, in order
  nAddSource,            \* number of addSource() calls made
  hasInitialValue        \* ids of the inputs whose first value has arrived

vars == <<moduleName, _historyLength, _enbaleTimeStamps, _prefix, _inputTag,
          model, _overallVariableList, _accessorListMap, _nameListMap, nextId,
          phase, dataFaultCounter, queue, pc, todo, now, written, delivered,
          nAddSource, hasInitialValue>>

config == <<moduleName, _historyLength, _enbaleTimeStamps, _prefix, _inputTag>>
registry == <<_overallVariableList, _accessorListMap, _nameListMap, nextId>>
engine == <<queue, pc, todo, now, written, delivered, hasInitialValue>>

----------------------------------------------------------------------------
\* Bounds of the model.

MaxHistoryLength == 3
MaxNotifications == 2
MaxAddSource == 2

\* Value-initialised element of an output buffer (std::vector<T>(n)).
Default == 0

\* Values a producer writes.
Values == {1, 2}

\* Readings of the system clock, in seconds since the epoch.
Times == {1, 2}

\* The user types of the two accessor tables, in table order.
Kinds == <<"int32", "double">>

KindSet == {Kinds[k] : k \in 1..Len(Kinds)}

----------------------------------------------------------------------------
\* The process variables of the application.  A process variable carries its
\* fully qualified path, value type, number of elements and tags.

PV(n, t, l, tg) == [name |-> n, type |-> t, length |-> l, tags |-> tg]

Range(f) == {f[x] : x \in DOMAIN f}

\* boost::starts_with
starts_with(s, p) == Len(s) >= Len(p) /\ SubSeq(s, 1, Len(p)) = p

\* All process variables of the application, in the order in which a visit
\* of the model presents them.
VisitOrder ==
  << PV("/Dummy/in", "int32", 1, {}),
     PV("/Dummy/out", "int32", 1, {"history"}),
     PV("/Array/out", "int32", 2, {"history"}),
     PV("/Device/signed32", "int32", 1, {}),
     PV("/Device/sub/value", "double", 1, {}) >>

\* Application modules that can be defined in the owning scope.
AppModules ==
  [ Dummy |-> {pv \in Range(VisitOrder) : starts_with(pv.name, "/Dummy/")},
    Array |-> {pv \in Range(VisitOrder) : starts_with(pv.name, "/Array/")} ]

\* Process variables of the device handed to addSource().
DevicePVs == {pv \in Range(VisitOrder) : starts_with(pv.name, "/Device/")}

\* Arguments of addSource().
Submodules == {"", "Device/sub"}

\* The process variables of the set S in the order a visit presents them.
InOrder(S) == SelectSeq(VisitOrder, LAMBDA pv : pv \in S)

----------------------------------------------------------------------------
\* Strings.

Digits == <<"0", "1", "2", "3", "4", "5", "6", "7", "8", "9">>

RECURSIVE to_string(_)
to_string(i) ==
  IF i < 10 THEN Digits[i + 1] ELSE to_string(i \div 10) \o Digits[(i % 10) + 1]

\* RegisterPath(s): a leading separator is added; the empty path is "/".
RegisterPath(s) ==
  IF s = "" THEN "/"
  ELSE IF starts_with(s, "/") THEN s ELSE "/" \o s

\* RegisterPath(a) / b
RegisterPathDiv(a, b) ==
  IF RegisterPath(b) = "/" THEN RegisterPath(a)
  ELSE IF RegisterPath(a) = "/" THEN RegisterPath(b)
  ELSE RegisterPath(a) \o RegisterPath(b)

----------------------------------------------------------------------------
\* Registration.  The registry is passed as a record so that a visit can
\* register several variables in one step; err is set when logic_error is
\* thrown, and the visit stops there.

Registry ==
  [ overall |-> _overallVariableList, acc |-> _accessorListMap,
    names |-> _nameListMap, nextId |-> nextId, err |-> FALSE ]

\* std::vector<T>(n): n value-initialised elements.
NewBuffer(n) == [j \in 1..n |-> Default]

\* Variant of ArrayOutput: the newest element of the buffer is not
\* value-initialised.
ArrayOutputUninitialised(n, len, tag) ==
  [name |-> n, buf |-> [j \in 1..len |-> IF j = len THEN 1 ELSE Default], tag |-> tag]

ArrayOutput(n, len, tag) == [name |-> n, buf |-> NewBuffer(len), tag |-> tag]

\* Tag of the accessors the module creates.
serverHistoryPVTag ==
  IF moduleName = _inputTag
    THEN (moduleName \o "_internal") \o "_module"
    ELSE moduleName \o "_internal"

\* Variant of TimeStampOutputs: one timestamp output per variable.
TimeStampOutputsPerVariable(historyName, nElements) ==
  IF ~_enbaleTimeStamps THEN << >>
  ELSE << ArrayOutput(historyName \o "_timeStamps", _historyLength, serverHistoryPVTag) >>

\* Variant of DataOutputs: the element index is appended for a variable of
\* one element as well.
DataOutputsIndexed(historyName, nElements) ==
  [ i \in 1..nElements |->
      ArrayOutput(historyName \o "_" \o to_string(i - 1), _historyLength,
                  serverHistoryPVTag) ]

\* The data and timestamp outputs created for a variable.
DataOutputs(historyName, nElements) ==
  IF nElements = 1
    THEN << ArrayOutput(historyName, _historyLength, serverHistoryPVTag) >>
    ELSE [ i \in 1..nElements |->
             ArrayOutput(historyName \o "_" \o to_string(i - 1), _historyLength,
                         serverHistoryPVTag) ]

TimeStampOutputs(historyName, nElements) ==
  IF ~_enbaleTimeStamps THEN << >>
  ELSE IF nElements = 1
    THEN << ArrayOutput(historyName \o "_timeStamps", _historyLength, serverHistoryPVTag) >>
    ELSE [ i \in 1..nElements |->
             ArrayOutput(historyName \o "_" \o to_string(i - 1) \o "_timeStamps",
                         _historyLength, serverHistoryPVTag) ]

\* Variant of HistoryEntry: withTimeStamps is set whether or not timestamp
\* outputs are created.
HistoryEntryStamped(historyName, nElements) ==
  [ data |-> DataOutputs(historyName, nElements),
    timeStamp |-> TimeStampOutputs(historyName, nElements),
    withTimeStamps |-> TRUE ]

HistoryEntry(historyName, nElements) ==
  [ data |-> DataOutputs(historyName, nElements),
    timeStamp |-> TimeStampOutputs(historyName, nElements),
    withTimeStamps |-> _enbaleTimeStamps ]

ArrayPushInput(id, variableName, nElements) ==
  [ getId |-> id, name |-> variableName, nElements |-> nElements,
    buf |-> NewBuffer(nElements), tag |-> serverHistoryPVTag ]

\* Variant of getAccessor: the name is not added to the name list of its kind.
getAccessorUnlisted(r, UserType, variableName, nElements) ==
  IF variableName \in r.overall
    THEN [r EXCEPT !.err = TRUE]
    ELSE
      LET historyName == RegisterPathDiv(_prefix, variableName)
          pair == [ first |-> ArrayPushInput(r.nextId, variableName, nElements),
                    second |-> HistoryEntry(historyName, nElements) ]
      IN  [ overall |-> r.overall \cup {variableName},
            acc |-> [r.acc EXCEPT ![UserType] = Append(@, pair)],
            names |-> r.names,
            nextId |-> r.nextId + 1,
            err |-> FALSE ]

getAccessor(r, UserType, variableName, nElements) ==
  IF variableName \in r.overall
    THEN [r EXCEPT !.err = TRUE]
    ELSE
      LET historyName == RegisterPathDiv(_prefix, variableName)
          pair == [ first |-> ArrayPushInput(r.nextId, variableName, nElements),
                    second |-> HistoryEntry(historyName, nElements) ]
      IN  [ overall |-> r.overall \cup {variableName},
            acc |-> [r.acc EXCEPT ![UserType] = Append(@, pair)],
            names |-> [r.names EXCEPT ![UserType] = Append(@, variableName)],
            nextId |-> r.nextId + 1,
            err |-> FALSE ]

\* Variant of addVariableFromModel: the name is registered without looking it
\* up in the list of registered names.
addVariableFromModelUnchecked(r, pv, submodule, checkTag) ==
  IF checkTag /\ _inputTag \notin pv.tags THEN r
  ELSE IF RegisterPath(submodule) # "/"
          /\ ~starts_with(pv.name, RegisterPath(submodule) \o "/") THEN r
  ELSE getAccessor([r EXCEPT !.overall = @ \ {pv.name}], pv.type, pv.name, pv.length)

\* Variant of addVariableFromModel: the name is looked up before the filters
\* are applied.
addVariableFromModelCollisionFirst(r, pv, submodule, checkTag) ==
  IF pv.name \in r.overall THEN [r EXCEPT !.err = TRUE]
  ELSE IF checkTag /\ _inputTag \notin pv.tags THEN r
  ELSE IF RegisterPath(submodule) # "/"
          /\ ~starts_with(pv.name, RegisterPath(submodule) \o "/") THEN r
  ELSE getAccessor(r, pv.type, pv.name, pv.length)

\* Variant of addVariableFromModel: the submodule is not looked at.
addVariableFromModelAnySubmodule(r, pv, submodule, checkTag) ==
  IF checkTag /\ _inputTag \notin pv.tags THEN r
  ELSE IF pv.name \in r.overall THEN [r EXCEPT !.err = TRUE]
  ELSE getAccessor(r, pv.type, pv.name, pv.length)

\* Variant of addVariableFromModel: the tags of the variable are not looked at.
addVariableFromModelAnyTag(r, pv, submodule, checkTag) ==
  IF RegisterPath(submodule) # "/"
       /\ ~starts_with(pv.name, RegisterPath(submodule) \o "/") THEN r
  ELSE IF pv.name \in r.overall THEN [r EXCEPT !.err = TRUE]
  ELSE getAccessor(r, pv.type, pv.name, pv.length)

addVariableFromModel(r, pv, submodule, checkTag) ==
  IF checkTag /\ _inputTag \notin pv.tags THEN r
  ELSE IF RegisterPath(submodule) # "/"
          /\ ~starts_with(pv.name, RegisterPath(submodule) \o "/") THEN r
  ELSE IF pv.name \in r.overall THEN [r EXCEPT !.err = TRUE]
  ELSE getAccessor(r, pv.type, pv.name, pv.length)

\* A visit: the visitor is called for every variable, in order, until it throws.
RECURSIVE Visit(_, _, _, _)
Visit(r, pvs, submodule, checkTag) ==
  IF pvs = << >> \/ r.err THEN r
  ELSE Visit(addVariableFromModel(r, Head(pvs), submodule, checkTag),
             Tail(pvs), submodule, checkTag)

getNumberOfVariables == Cardinality(_overallVariableList)

\* The registry variables take the values of r.
SetRegistry(r) ==
  /\ _overallVariableList' = r.overall
  /\ _accessorListMap' = r.acc
  /\ _nameListMap' = r.names
  /\ nextId' = r.nextId

----------------------------------------------------------------------------
\* Initial state: the members as the constructor's initialiser list sets them.

InitConfig(names, tags) ==
  /\ moduleName \in names
  /\ _inputTag \in tags
  /\ _historyLength \in 1..MaxHistoryLength
  /\ _enbaleTimeStamps \in BOOLEAN
  /\ _prefix = "History"
  /\ model = {}
  /\ _overallVariableList = {}
  /\ _accessorListMap = [k \in KindSet |-> << >>]
  /\ _nameListMap = [k \in KindSet |-> << >>]
  /\ nextId = 1
  /\ phase = "init"
  /\ dataFaultCounter = 0
  /\ queue = << >>
  /\ pc = "readAny"
  /\ todo = << >>
  /\ now = 1
  /\ written = << >>
  /\ delivered = << >>
  /\ nAddSource = 0
  /\ hasInitialValue = {}

\* Module names and input tags for the start-up of differently configured modules.
ModuleNames == {"history", "hist"}

InputTags == {"history", "hist_internal"}

InitStartup == InitConfig(ModuleNames, InputTags)

Init == InitConfig({"historyTest"}, {"history"})

----------------------------------------------------------------------------
\* Variant of DefineModule: the tagged variables of a module defined after the
\* ServerHistory constructor ran are registered when the module is defined.
DefineModuleDiscovered(m) ==
  /\ phase \in {"init", "Preparing"}
  /\ ~(AppModules[m] \subseteq model)
  /\ model' = model \cup AppModules[m]
  /\ IF phase = "init" THEN UNCHANGED registry
     ELSE SetRegistry(Visit(Registry,
                            InOrder({pv \in AppModules[m] : _inputTag \in pv.tags}),
                            "", TRUE))
  /\ UNCHANGED <<config, phase, dataFaultCounter, engine, nAddSource>>

\* The application defines a module in the owning scope.  Modules defined
\* after the ServerHistory constructor ran are in the model as well.
DefineModule(m) ==
  /\ phase \in {"init", "Preparing"}
  /\ ~(AppModules[m] \subseteq model)
  /\ model' = model \cup AppModules[m]
  /\ UNCHANGED <<config, registry, phase, dataFaultCounter, engine, nAddSource>>

\* Variant of Constructor: a visit that registers no variable is an error.
ConstructorStrict ==
  /\ phase = "init"
  /\ LET pvs == InOrder({pv \in model : _inputTag \in pv.tags})
         r == Visit(Registry, pvs, "", TRUE)
     IN  /\ SetRegistry(r)
         /\ phase' = IF r.err \/ r.overall = {} THEN "Failed" ELSE "Preparing"
  /\ UNCHANGED <<config, model, dataFaultCounter, engine, nAddSource>>

\* ServerHistory::ServerHistory: breadth-first visit of the process variables
\* of the model that carry the input tag.
Constructor ==
  /\ phase = "init"
  /\ LET pvs == InOrder({pv \in model : _inputTag \in pv.tags})
         r == Visit(Registry, pvs, "", TRUE)
         found == TRUE
     IN  /\ SetRegistry(r)
         /\ phase' = IF r.err \/ ~found THEN "Failed" ELSE "Preparing"
  /\ UNCHANGED <<config, model, dataFaultCounter, engine, nAddSource>>

\* Variant of addSource: the caller swallows the exception, and the start-up
\* goes on with what was registered before it was thrown.
addSourceCaught(submodule) ==
  /\ phase = "Preparing"
  /\ nAddSource < MaxAddSource
  /\ nAddSource' = nAddSource + 1
  /\ SetRegistry(Visit(Registry, InOrder(DevicePVs), submodule, FALSE))
  /\ UNCHANGED <<config, model, phase, dataFaultCounter, engine>>

\* ServerHistory::addSource: visit of all process variables of the device,
\* without tag check.
addSource(submodule) ==
  /\ phase = "Preparing"
  /\ nAddSource < MaxAddSource
  /\ nAddSource' = nAddSource + 1
  /\ LET r == Visit(Registry, InOrder(DevicePVs), submodule, FALSE)
     IN  /\ SetRegistry(r)
         /\ phase' = IF r.err THEN "Failed" ELSE "Preparing"
  /\ UNCHANGED <<config, model, dataFaultCounter, engine>>

----------------------------------------------------------------------------
\* The registry entries.

Locs == {loc \in KindSet \X (1..nextId) : loc[2] <= Len(_accessorListMap[loc[1]])}

Entry(loc) == _accessorListMap[loc[1]][loc[2]]

\* The entries in the order their accessors were created.
RECURSIVE EntriesFrom(_)
EntriesFrom(id) ==
  IF id >= nextId THEN << >>
  ELSE LET here == {loc \in Locs : Entry(loc).first.getId = id}
       IN  (IF here = {} THEN << >> ELSE << Entry(CHOOSE loc \in here : TRUE) >>)
             \o EntriesFrom(id + 1)

\* One write of an output: what the control system receives.
WriteRecord(out, seq) ==
  [name |-> out.name, value |-> out.buf, faulty |-> dataFaultCounter > 0, seq |-> seq]

----------------------------------------------------------------------------
\* ServerHistory::prepare

incrementDataFaultCounter(c) == c + 1

\* Variant of decrementDataFaultCounter: the counter stays raised.
keepDataFaultCounter(c) == c

decrementDataFaultCounter(c) == c - 1

\* Writes of all outputs of one entry, in the order the outputs were created.
RECURSIVE EntryWrites(_, _, _)
EntryWrites(e, i, faulty) ==
  IF i > Len(e.second.data) THEN << >>
  ELSE << [name |-> e.second.data[i].name, value |-> e.second.data[i].buf,
           faulty |-> faulty, seq |-> 0] >>
       \o (IF i <= Len(e.second.timeStamp)
             THEN << [name |-> e.second.timeStamp[i].name,
                      value |-> e.second.timeStamp[i].buf,
                      faulty |-> faulty, seq |-> 0] >>
             ELSE << >>)
       \o EntryWrites(e, i + 1, faulty)

\* ApplicationModule::writeAll(): every output of the module is written once.
RECURSIVE writeAllFrom(_, _)
writeAllFrom(es, faulty) ==
  IF es = << >> THEN << >>
  ELSE EntryWrites(Head(es), 1, faulty) \o writeAllFrom(Tail(es), faulty)

writeAll(counter) == writeAllFrom(EntriesFrom(1), counter > 0)

\* Variant of prepare: the outputs are written whatever the registry holds.
prepareUnchecked ==
  /\ phase = "Preparing"
  /\ LET raised == incrementDataFaultCounter(dataFaultCounter)
     IN  /\ written' = written \o writeAll(raised)
         /\ dataFaultCounter' = decrementDataFaultCounter(raised)
         /\ phase' = "Running"
  /\ UNCHANGED <<config, model, registry, queue, pc, todo, now, delivered, nAddSource,
                 hasInitialValue>>

prepare ==
  /\ phase = "Preparing"
  /\ IF getNumberOfVariables = 0
       THEN /\ phase' = "Failed"
            /\ UNCHANGED <<dataFaultCounter, written>>
       ELSE LET raised == incrementDataFaultCounter(dataFaultCounter)
            IN  /\ written' = written \o writeAll(raised)
                /\ dataFaultCounter' = decrementDataFaultCounter(raised)
                /\ phase' = "Running"
  /\ UNCHANGED <<config, model, registry, queue, pc, todo, now, delivered, nAddSource,
                 hasInitialValue>>

----------------------------------------------------------------------------
\* Producers.

\* The arrays a producer writes to a variable of n elements.
InputValues(n) == {[i \in 1..n |-> v + 2 * (i - 1)] : v \in Values}

\* The first value of every input has arrived: the module's thread has read
\* the initial values and is in the loop of mainLoop().
InitialValuesRead == \A loc \in Locs : Entry(loc).first.getId \in hasInitialValue

\* A producer writes a registered variable.  The first value an input receives
\* is its initial value, which is read before the loop of mainLoop() starts;
\* every later value is queued for the input and the ReadAnyGroup is notified.
\* (readAny() overwrites the buffer of an input before Update reads it, so the
\* initial value itself is not kept.)
Write(loc, value) ==
  /\ phase = "Running"
  /\ IF Entry(loc).first.getId \notin hasInitialValue
       THEN /\ hasInitialValue' = hasInitialValue \cup {Entry(loc).first.getId}
            /\ UNCHANGED queue
       ELSE /\ Len(delivered) + Len(queue) < MaxNotifications
            /\ queue' = Append(queue, [id |-> Entry(loc).first.getId, value |-> value])
            /\ UNCHANGED hasInitialValue
  /\ UNCHANGED <<config, model, registry, phase, dataFaultCounter, pc, todo, now,
                 written, delivered, nAddSource>>

----------------------------------------------------------------------------
\* ServerHistory::mainLoop

\* Variant of rotate: the buffer is rotated to the right.
rotateRight(buf) == << buf[Len(buf)] >> \o SubSeq(buf, 1, Len(buf) - 1)

\* std::rotate(begin, begin + 1, end)
rotate(buf) == Tail(buf) \o << Head(buf) >>

\* Variant of RotateAndAppend: the value is pushed back without a rotation.
PushBack(buf, v) == Append(buf, v)

\* rotate, then *(end() - 1) = v
RotateAndAppend(buf, v) == [rotate(buf) EXCEPT ![Len(buf)] = v]

\* Variant of ElementsOf: the loop over the elements ends one element early.
ElementsOfButLast(k, j) ==
  [i \in 1..(Entry(<<k, j>>).first.nElements - 1) |-> [kind |-> k, idx |-> j, i |-> i - 1]]

\* The elements Update visits for _id, in the order it visits them: the tables
\* in table order, the accessors in list order, the elements in index order.
ElementsOf(k, j) ==
  [i \in 1..Entry(<<k, j>>).first.nElements |-> [kind |-> k, idx |-> j, i |-> i - 1]]

\* Variant of UpdateList: an accessor is taken for the notified one when it has
\* as many elements as the notified one.
RECURSIVE UpdateListBySize(_, _, _)
UpdateListBySize(id, t, j) ==
  IF t > Len(Kinds) THEN << >>
  ELSE IF j > Len(_accessorListMap[Kinds[t]]) THEN UpdateListBySize(id, t + 1, 1)
  ELSE (IF \E loc \in Locs : /\ Entry(loc).first.getId = id
                             /\ Entry(loc).first.nElements =
                                  _accessorListMap[Kinds[t]][j].first.nElements
          THEN ElementsOf(Kinds[t], j) ELSE << >>)
       \o UpdateListBySize(id, t, j + 1)

\* Variant of UpdateList: only the first accessor table is searched.
RECURSIVE UpdateListFirstTable(_, _, _)
UpdateListFirstTable(id, t, j) ==
  IF t > 1 THEN << >>
  ELSE IF j > Len(_accessorListMap[Kinds[t]]) THEN UpdateListFirstTable(id, t + 1, 1)
  ELSE (IF _accessorListMap[Kinds[t]][j].first.getId = id
          THEN ElementsOf(Kinds[t], j) ELSE << >>)
       \o UpdateListFirstTable(id, t, j + 1)

RECURSIVE UpdateList(_, _, _)
UpdateList(id, t, j) ==
  IF t > Len(Kinds) THEN << >>
  ELSE IF j > Len(_accessorListMap[Kinds[t]]) THEN UpdateList(id, t + 1, 1)
  ELSE (IF _accessorListMap[Kinds[t]][j].first.getId = id
          THEN ElementsOf(Kinds[t], j) ELSE << >>)
       \o UpdateList(id, t, j + 1)

\* group.readAny(): the oldest notification is taken, the value is moved into
\* the buffer of the input it belongs to, and the id of that input returned.
Receive(map, n) ==
  [k \in KindSet |->
    [j \in 1..Len(map[k]) |->
      IF map[k][j].first.getId = n.id
        THEN [map[k][j] EXCEPT !.first.buf = n.value]
        ELSE map[k][j]]]

\* Variant of readAny: the next notification is taken while Update is still
\* working on the last one.
readAnyEarly ==
  /\ phase = "Running"
  /\ InitialValuesRead
  /\ queue # << >>
  /\ LET n == Head(queue)
         list == UpdateList(n.id, 1, 1)
     IN  /\ queue' = Tail(queue)
         /\ delivered' = Append(delivered, n)
         /\ _accessorListMap' = Receive(_accessorListMap, n)
         /\ todo' = list
         /\ pc' = IF list = << >> THEN "readAny" ELSE "update"
  /\ UNCHANGED <<config, model, _overallVariableList, _nameListMap, nextId, phase,
                 dataFaultCounter, now, written, nAddSource, hasInitialValue>>

\* Variant of readAny: the loop takes a notification whether or not the first
\* values of the other inputs have arrived.
readAnyAtOnce ==
  /\ phase = "Running"
  /\ pc = "readAny"
  /\ queue # << >>
  /\ LET n == Head(queue)
         list == UpdateList(n.id, 1, 1)
     IN  /\ queue' = Tail(queue)
         /\ delivered' = Append(delivered, n)
         /\ _accessorListMap' = Receive(_accessorListMap, n)
         /\ todo' = list
         /\ pc' = IF list = << >> THEN "readAny" ELSE "update"
  /\ UNCHANGED <<config, model, _overallVariableList, _nameListMap, nextId, phase,
                 dataFaultCounter, now, written, nAddSource, hasInitialValue>>

readAny ==
  /\ phase = "Running"
  /\ InitialValuesRead
  /\ pc = "readAny"
  /\ queue # << >>
  /\ LET n == Head(queue)
         list == UpdateList(n.id, 1, 1)
     IN  /\ queue' = Tail(queue)
         /\ delivered' = Append(delivered, n)
         /\ _accessorListMap' = Receive(_accessorListMap, n)
         /\ todo' = list
         /\ pc' = IF list = << >> THEN "readAny" ELSE "update"
  /\ UNCHANGED <<config, model, _overallVariableList, _nameListMap, nextId, phase,
                 dataFaultCounter, now, written, nAddSource, hasInitialValue>>

\* Variant of UpdateData: the first element of the input goes to every buffer.
UpdateDataFirst(e, i) ==
  [e EXCEPT !.second.data[i].buf = RotateAndAppend(@, e.first.buf[1])]

\* Variant of UpdateData: the updated buffer is added to the buffers of the
\* variable instead of replacing the one it was made from.
UpdateDataAdded(e, i) ==
  [e EXCEPT !.second.data =
     Append(@, [@[i] EXCEPT !.buf = RotateAndAppend(@, e.first.buf[i])])]

\* Variant of UpdateData: a value equal to the newest recorded one is not
\* recorded again.
UpdateDataChanged(e, i) ==
  IF e.second.data[i].buf[Len(e.second.data[i].buf)] = e.first.buf[i] THEN e
  ELSE [e EXCEPT !.second.data[i].buf = RotateAndAppend(@, e.first.buf[i])]

\* Lines 136-139: element i of the input goes to data buffer i, which is written.
UpdateData(e, i) ==
  [e EXCEPT !.second.data[i].buf = RotateAndAppend(@, e.first.buf[i])]

\* Variant of UpdateTimeStamp: the newest slot is overwritten without a rotation.
UpdateTimeStampInPlace(e, i, t) ==
  [e EXCEPT !.second.timeStamp[i].buf = [@ EXCEPT ![Len(@)] = t]]

\* Lines 141-146: the clock reading t goes to timestamp buffer i, which is written.
UpdateTimeStamp(e, i, t) ==
  [e EXCEPT !.second.timeStamp[i].buf = RotateAndAppend(@, t)]

\* Variant of UpdateElement: mainLoop() returns when Update has processed the
\* first notification.
UpdateElementOnce ==
  /\ phase = "Running"
  /\ pc = "update"
  /\ LET t == Head(todo)
         e == Entry(<<t.kind, t.idx>>)
         i == t.i + 1
         seq == Len(delivered)
         rest == Tail(todo)
     IN  IF i > Len(e.second.data)
           THEN /\ phase' = "Aborted"
                /\ UNCHANGED <<_accessorListMap, written, now, todo, pc>>
           ELSE
             LET e1 == UpdateData(e, i)
                 w1 == Append(written, WriteRecord(e1.second.data[i], seq))
             IN  IF ~e.second.withTimeStamps
                   THEN /\ _accessorListMap' =
                             [_accessorListMap EXCEPT ![t.kind][t.idx] = e1]
                        /\ written' = w1
                        /\ todo' = rest
                        /\ pc' = IF rest = << >> THEN "readAny" ELSE "update"
                        /\ phase' = IF rest = << >> THEN "Done" ELSE phase
                        /\ UNCHANGED now
                   ELSE IF i > Len(e.second.timeStamp)
                   THEN /\ _accessorListMap' =
                             [_accessorListMap EXCEPT ![t.kind][t.idx] = e1]
                        /\ written' = w1
                        /\ phase' = "Aborted"
                        /\ UNCHANGED <<now, todo, pc>>
                   ELSE \E clock \in {c \in Times : c >= now} :
                          LET e2 == UpdateTimeStamp(e1, i, clock)
                          IN  /\ _accessorListMap' =
                                   [_accessorListMap EXCEPT ![t.kind][t.idx] = e2]
                              /\ written' =
                                   Append(w1, WriteRecord(e2.second.timeStamp[i], seq))
                              /\ now' = clock
                              /\ todo' = rest
                              /\ pc' = IF rest = << >> THEN "readAny" ELSE "update"
                              /\ phase' = IF rest = << >> THEN "Done" ELSE phase
  /\ UNCHANGED <<config, model, _overallVariableList, _nameListMap, nextId,
                 dataFaultCounter, queue, delivered, nAddSource, hasInitialValue>>

\* One round of the loop over the elements in Update::operator().  at(i) throws
\* std::out_of_range for an index that is not in the vector.
UpdateElement ==
  /\ phase = "Running"
  /\ pc = "update"
  /\ LET t == Head(todo)
         e == Entry(<<t.kind, t.idx>>)
         i == t.i + 1
         seq == Len(delivered)
         rest == Tail(todo)
     IN  IF i > Len(e.second.data)
           THEN /\ phase' = "Aborted"
                /\ UNCHANGED <<_accessorListMap, written, now, todo, pc>>
           ELSE
             LET e1 == UpdateData(e, i)
                 w1 == Append(written, WriteRecord(e1.second.data[i], seq))
             IN  IF ~e.second.withTimeStamps
                   THEN /\ _accessorListMap' =
                             [_accessorListMap EXCEPT ![t.kind][t.idx] = e1]
                        /\ written' = w1
                        /\ todo' = rest
                        /\ pc' = IF rest = << >> THEN "readAny" ELSE "update"
                        /\ UNCHANGED <<phase, now>>
                   ELSE IF i > Len(e.second.timeStamp)
                   THEN /\ _accessorListMap' =
                             [_accessorListMap EXCEPT ![t.kind][t.idx] = e1]
                        /\ written' = w1
                        /\ phase' = "Aborted"
                        /\ UNCHANGED <<now, todo, pc>>
                   ELSE \E clock \in {c \in Times : c >= now} :
                          LET e2 == UpdateTimeStamp(e1, i, clock)
                          IN  /\ _accessorListMap' =
                                   [_accessorListMap EXCEPT ![t.kind][t.idx] = e2]
                              /\ written' =
                                   Append(w1, WriteRecord(e2.second.timeStamp[i], seq))
                              /\ now' = clock
                              /\ todo' = rest
                              /\ pc' = IF rest = << >> THEN "readAny" ELSE "update"
                              /\ UNCHANGED phase
  /\ UNCHANGED <<config, model, _overallVariableList, _nameListMap, nextId,
                 dataFaultCounter, queue, delivered, nAddSource, hasInitialValue>>

----------------------------------------------------------------------------

Next ==
  \/ \E m \in DOMAIN AppModules : DefineModule(m)
  \/ Constructor
  \/ \E submodule \in Submodules : addSource(submodule)
  \/ prepare
  \/ \E loc \in Locs : \E value \in InputValues(Entry(loc).first.nElements) :
       Write(loc, value)
  \/ readAny
  \/ UpdateElement

\* The start-up alone: construction, addSource() and prepare().
NextStartup ==
  \/ \E m \in DOMAIN AppModules : DefineModule(m)
  \/ Constructor
  \/ \E submodule \in Submodules : addSource(submodule)
  \/ prepare

SpecStartup == InitStartup /\ [][NextStartup]_vars

Spec == Init /\ [][Next]_vars

----------------------------------------------------------------------------
\* What the buffers must hold.

\* The values of element i (from 1) of the notifications readAny() returned
\* for the input id, in the order it returned them.
RECURSIVE ValuesFor(_, _, _)
ValuesFor(id, i, ns) ==
  IF ns = << >> THEN << >>
  ELSE (IF Head(ns).id = id THEN << Head(ns).value[i] >> ELSE << >>)
       \o ValuesFor(id, i, Tail(ns))

\* A buffer of length len after the values vals went through it: leading
\* defaults while fewer than len values came, the last len values afterwards.
History(len, vals) ==
  LET k == Len(vals)
  IN  IF k < len
        THEN [j \in 1..len |-> IF j <= len - k THEN Default ELSE vals[j - (len - k)]]
        ELSE [j \in 1..len |-> vals[k - len + j]]

Scalars == {loc \in Locs : Entry(loc).first.nElements = 1}

\* C1  Rotation correctness: whenever the loop waits in readAny(), the data
\* buffer of every scalar variable holds leading defaults followed by the k
\* values delivered for it while k < L, and the last L delivered values, oldest
\* first, once k >= L.
C1_RotationCorrectness ==
  pc = "readAny" =>
    \A loc \in Scalars :
      LET vals == ValuesFor(Entry(loc).first.getId, 1, delivered)
          k == Len(vals)
          buf == Entry(loc).second.data[1].buf
          L == _historyLength
      IN  /\ k < L =>
               /\ \A j \in 1..(L - k) : buf[j] = Default
               /\ \A j \in 1..k : buf[L - k + j] = vals[j]
          /\ k >= L => \A j \in 1..L : buf[j] = vals[k - L + j]

\* Two different values went through a scalar buffer of length two.
C1_Witness ==
  /\ pc = "readAny"
  /\ _historyLength = 2
  /\ \E loc \in Scalars :
       /\ ValuesFor(Entry(loc).first.getId, 1, delivered) = << 1, 2 >>
       /\ Entry(loc).second.data[1].buf = << 1, 2 >>

\* C2  Buffer length invariant: in every state every data buffer and every
\* timestamp buffer of every registered variable has length L.
C2_BufferLength ==
  \A loc \in Locs :
    /\ \A i \in 1..Len(Entry(loc).second.data) :
         Len(Entry(loc).second.data[i].buf) = _historyLength
    /\ \A i \in 1..Len(Entry(loc).second.timeStamp) :
         Len(Entry(loc).second.timeStamp[i].buf) = _historyLength

\* A data buffer and its timestamp buffer went through two updates.
C2_Witness ==
  \E loc \in Locs :
    /\ Len(ValuesFor(Entry(loc).first.getId, 1, delivered)) = 2
    /\ pc = "readAny"
    /\ Entry(loc).second.withTimeStamps
    /\ Entry(loc).second.timeStamp[1].buf[_historyLength] # Default
    /\ Entry(loc).second.data[1].buf[_historyLength] # Default

----------------------------------------------------------------------------
\* All process variables a visit can present.
AllPVs == (UNION {AppModules[m] : m \in DOMAIN AppModules}) \cup DevicePVs

\* How often name is in the per-kind name lists, and in the accessor lists.
NameCount(name) ==
  Cardinality({loc \in Locs : _nameListMap[loc[1]][loc[2]] = name})

AccessorCount(name) ==
  Cardinality({loc \in Locs : Entry(loc).first.name = name})

\* C3  Uniqueness: no name is registered more than once over all kinds, and
\* while variables can be registered (before prepare()), registering a
\* variable whose name is already registered throws and leaves the name set,
\* the name lists, the accessor lists and the buffers as they are.
C3_Uniqueness ==
  /\ \A k \in KindSet : Len(_nameListMap[k]) = Len(_accessorListMap[k])
  /\ \A name \in _overallVariableList : NameCount(name) = 1 /\ AccessorCount(name) = 1
  /\ \A loc \in Locs : Entry(loc).first.name \in _overallVariableList
  /\ phase \in {"init", "Preparing"} =>
       \A pv \in AllPVs : \A checkTag \in BOOLEAN :
         (pv.name \in _overallVariableList /\ (checkTag => _inputTag \in pv.tags)) =>
           LET r == addVariableFromModel(Registry, pv, "", checkTag)
           IN  /\ r.err
               /\ r.overall = _overallVariableList
               /\ r.names = _nameListMap
               /\ r.acc = _accessorListMap

\* The second addSource() threw on a name that was registered; the variables
\* registered before are still there.
C3_Witness ==
  /\ phase = "Failed"
  /\ nAddSource = 2
  /\ Cardinality(_overallVariableList) >= 2

----------------------------------------------------------------------------
\* The input whose notification readAny() returned last.
CurrentId == IF delivered = << >> THEN 0 ELSE delivered[Len(delivered)].id

OutputNames(e) ==
  {e.second.data[i].name : i \in 1..Len(e.second.data)}
    \cup {e.second.timeStamp[i].name : i \in 1..Len(e.second.timeStamp)}

\* C4  Demultiplexing: the inputs of different registered variables have
\* different ids, and a step of the running module changes and writes the
\* buffers of the notified variable only: every other entry stays as it is
\* and none of its outputs is written.
C4_Demultiplexing ==
  /\ [](\A a, b \in Locs : a # b => Entry(a).first.getId # Entry(b).first.getId)
  /\ [][phase = "Running" =>
          \A loc \in Locs :
            Entry(loc).first.getId # CurrentId' =>
              /\ Entry(loc)' = Entry(loc)
              /\ \A j \in (Len(written) + 1)..Len(written') :
                   written'[j].name \notin OutputNames(Entry(loc))]_vars

\* Of two scalar variables of the same kind one was updated and the other
\* still holds the defaults.
C4_Witness ==
  /\ pc = "readAny"
  /\ \E a, b \in Scalars :
       /\ a # b
       /\ a[1] = b[1]
       /\ Entry(a).second.data[1].buf[_historyLength] # Default
       /\ Entry(b).second.data[1].buf = NewBuffer(_historyLength)

----------------------------------------------------------------------------
\* Update is working on element i (from 1) of the entry at loc and has not
\* reached it yet.
Pending(loc, i) ==
  /\ pc = "update"
  /\ \E n \in 1..Len(todo) :
       todo[n].kind = loc[1] /\ todo[n].idx = loc[2] /\ todo[n].i = i - 1

\* The values that went to data buffer i of the entry at loc so far.
Recorded(loc, i) ==
  LET vals == ValuesFor(Entry(loc).first.getId, i, delivered)
  IN  IF Pending(loc, i) THEN SubSeq(vals, 1, Len(vals) - 1) ELSE vals

\* C5  Array fan-out: data buffer i of a variable holds the history of
\* element i of the arrays delivered for it, in delivery order, and of nothing
\* else; in the middle of an update the buffers Update has not reached yet
\* lack the element of the array being processed.
C5_ArrayFanOut ==
  \A loc \in Locs :
    \A i \in 1..Entry(loc).first.nElements :
      Entry(loc).second.data[i].buf = History(_historyLength, Recorded(loc, i))

\* Two arrays went through the two buffers of an array variable.
C5_Witness ==
  /\ pc = "readAny"
  /\ _historyLength = 2
  /\ \E loc \in Locs :
       /\ Entry(loc).first.nElements = 2
       /\ Entry(loc).second.data[1].buf = << 1, 2 >>
       /\ Entry(loc).second.data[2].buf = << 3, 4 >>

----------------------------------------------------------------------------
\* C6  Output count: a registered variable of n elements owns n data buffers
\* and, with time stamps enabled, n timestamp buffers, without them none; in
\* every state from its registration on.
C6_OutputCount ==
  \A loc \in Locs :
    /\ Len(Entry(loc).second.data) = Entry(loc).first.nElements
    /\ Len(Entry(loc).second.timeStamp) =
         IF _enbaleTimeStamps THEN Entry(loc).first.nElements ELSE 0

\* An array variable with timestamp buffers, after an update, beside a
\* variable registered by addSource().
C6_Witness ==
  /\ phase = "Running"
  /\ nAddSource > 0
  /\ _enbaleTimeStamps
  /\ \E loc \in Locs :
       /\ Entry(loc).first.nElements = 2
       /\ Len(Entry(loc).second.timeStamp) = 2
       /\ Entry(loc).second.data[2].buf[_historyLength] # Default

----------------------------------------------------------------------------
\* C7  No-match startup failure: when the constructor finds no variable with
\* the input tag the registry is empty after it, and prepare() on an empty
\* registry throws: nothing is written and the module does not run.  The
\* module never runs with an empty registry.
C7_NoMatchStartupFailure ==
  /\ [](phase = "Running" => getNumberOfVariables > 0)
  /\ [][(phase = "init" /\ phase' # "init"
           /\ ~\E pv \in model : _inputTag \in pv.tags)
          => getNumberOfVariables' = 0]_vars
  /\ [][(phase = "Preparing" /\ getNumberOfVariables = 0
           /\ model' = model /\ nAddSource' = nAddSource)
          => (phase' = "Failed" /\ written' = written /\ written = << >>
                /\ getNumberOfVariables' = 0)]_vars

\* Both modules were defined, no variable carries the input tag, no source was
\* added, and prepare() threw.
C7_Witness ==
  /\ phase = "Failed"
  /\ model = AllPVs \ DevicePVs
  /\ ~\E pv \in model : _inputTag \in pv.tags
  /\ nAddSource = 0
  /\ getNumberOfVariables = 0
  /\ written = << >>

----------------------------------------------------------------------------
\* C8  No self-feedback: the tag of every input and output the module creates
\* differs from the input tag.
C8_NoSelfFeedback ==
  \A loc \in Locs :
    /\ Entry(loc).first.tag # _inputTag
    /\ \A i \in 1..Len(Entry(loc).second.data) :
         Entry(loc).second.data[i].tag # _inputTag
    /\ \A i \in 1..Len(Entry(loc).second.timeStamp) :
         Entry(loc).second.timeStamp[i].tag # _inputTag

----------------------------------------------------------------------------
\* The entry of the input id.
EntryOfId(id) == Entry(CHOOSE loc \in Locs : Entry(loc).first.getId = id)

\* The writes made for the k-th notification (0: by prepare()).
WritesOf(k) == {j \in 1..Len(written) : written[j].seq = k}

\* The number of writes one notification for the input id causes.
WritesPerUpdate(id) ==
  Len(EntryOfId(id).second.data) + Len(EntryOfId(id).second.timeStamp)

\* C9  FIFO ordering: the writes are made in the order of the notifications:
\* no write for a notification precedes a write for an earlier one, every
\* write for the k-th notification is a write of an output of its variable,
\* and all writes for a notification have been made when the next one is
\* taken (and when the loop waits again).
C9_FifoOrdering ==
  /\ \A j \in 1..(Len(written) - 1) : written[j].seq <= written[j + 1].seq
  /\ \A j \in 1..Len(written) :
       written[j].seq > 0 =>
         /\ written[j].seq <= Len(delivered)
         /\ written[j].name \in OutputNames(EntryOfId(delivered[written[j].seq].id))
  /\ \A k \in 1..Len(delivered) :
       (k < Len(delivered) \/ pc = "readAny") =>
         Cardinality(WritesOf(k)) = WritesPerUpdate(delivered[k].id)
  /\ pc = "readAny" <=> todo = << >>

\* A notification for an array variable and then one for another variable
\* were processed.
C9_Witness ==
  /\ pc = "readAny"
  /\ Len(delivered) = 2
  /\ delivered[1].id # delivered[2].id
  /\ EntryOfId(delivered[1].id).first.nElements = 2
  /\ Cardinality(WritesOf(1)) >= 2
  /\ Cardinality(WritesOf(2)) >= 1

----------------------------------------------------------------------------
\* C10  Initial publish: a prepare() that succeeds writes every data and
\* timestamp output exactly once, each with L defaults and flagged faulty, and
\* leaves the data fault counter at the value it had before; the writes of the
\* main loop are not flagged faulty by it.
C10_InitialPublish ==
  /\ [][(phase = "Preparing" /\ phase' = "Running") =>
          /\ dataFaultCounter' = dataFaultCounter
          /\ Len(written') > Len(written)
          /\ SubSeq(written', 1, Len(written)) = written
          /\ \A loc \in Locs : \A name \in OutputNames(Entry(loc)) :
               Cardinality({j \in (Len(written) + 1)..Len(written') :
                              written'[j].name = name}) = 1
          /\ \A j \in (Len(written) + 1)..Len(written') :
               /\ \E loc \in Locs : written'[j].name \in OutputNames(Entry(loc))
               /\ written'[j].value = NewBuffer(_historyLength)
               /\ written'[j].faulty
               /\ written'[j].seq = 0]_vars
  /\ [](\A j \in 1..Len(written) : written[j].seq > 0 => ~written[j].faulty)

\* prepare() wrote the data and timestamp outputs of two variables, and the
\* main loop has written one of them since.
C10_Witness ==
  /\ phase = "Running"
  /\ _enbaleTimeStamps
  /\ Cardinality(_overallVariableList) = 2
  /\ Cardinality(WritesOf(0)) >= 4
  /\ dataFaultCounter = 0
  /\ WritesOf(1) # {}

----------------------------------------------------------------------------
\* The number of writes the main loop made of the output name.
MainLoopWrites(name) ==
  Cardinality({j \in 1..Len(written) : written[j].seq > 0 /\ written[j].name = name})

\* The slots of buf that were written since the buffer was created.
WrittenSlots(buf) == {j \in 1..Len(buf) : buf[j] # Default}

Min(a, b) == IF a < b THEN a ELSE b

\* C11  Every observation is recorded: each notification processed for a
\* variable puts one value into each of its data buffers and writes the buffer
\* once, also when the value equals the one recorded before: after k
\* notifications min(k, L) slots are filled, the newest slots hold the newest
\* values, repeated ones included, and each output was written k times.
C11_EveryObservationRecorded ==
  \A loc \in Locs :
    \A i \in 1..Entry(loc).first.nElements :
      LET e == Entry(loc)
          vals == Recorded(loc, i)
          k == Len(vals)
          buf == e.second.data[i].buf
          L == _historyLength
      IN  /\ MainLoopWrites(e.second.data[i].name) = k
          /\ e.second.withTimeStamps =>
               MainLoopWrites(e.second.timeStamp[i].name) = k
          /\ Cardinality(WrittenSlots(buf)) = Min(k, L)
          /\ \A j \in 1..Min(k, L) : buf[L - j + 1] = vals[k - j + 1]

\* The same value was delivered twice for a scalar variable and is in the
\* buffer twice.
C11_Witness ==
  /\ pc = "readAny"
  /\ _historyLength = 3
  /\ \E loc \in Scalars :
       /\ ValuesFor(Entry(loc).first.getId, 1, delivered) = << 1, 1 >>
       /\ Entry(loc).second.data[1].buf = << Default, 1, 1 >>
       /\ MainLoopWrites(Entry(loc).second.data[1].name) = 2

----------------------------------------------------------------------------
\* The positions in delivered of the notifications for the input id.
SeqsFor(id) == SelectSeq([k \in 1..Len(delivered) |-> k], LAMBDA k : delivered[k].id = id)

\* The positions of the notifications whose element i (from 1) Update has
\* recorded for the entry at loc.
RecordedSeqs(loc, i) ==
  LET seqs == SeqsFor(Entry(loc).first.getId)
  IN  IF Pending(loc, i) THEN SubSeq(seqs, 1, Len(seqs) - 1) ELSE seqs

\* The clock reading Update took when it processed the k-th notification for
\* the timestamp output name: the newest slot of the buffer it wrote then.
CaptureTime(k, name) ==
  LET j == CHOOSE j \in 1..Len(written) : written[j].seq = k /\ written[j].name = name
  IN  written[j].value[Len(written[j].value)]

ends_with(s, p) == Len(s) >= Len(p) /\ SubSeq(s, Len(s) - Len(p) + 1, Len(s)) = p

\* C12  Timestamp lockstep: with time stamps enabled timestamp buffer i is
\* rotated and appended exactly when data buffer i is: both have min(k, L)
\* written slots, and slot j of the timestamp buffer holds the clock reading
\* of the update that put the value into slot j of the data buffer.  Without
\* time stamps there is no timestamp buffer and none is ever written.
C12_TimestampLockstep ==
  /\ _enbaleTimeStamps =>
       \A loc \in Locs :
         \A i \in 1..Entry(loc).first.nElements :
           LET e == Entry(loc)
               seqs == RecordedSeqs(loc, i)
               k == Len(seqs)
               L == _historyLength
               data == e.second.data[i].buf
               ts == e.second.timeStamp[i].buf
           IN  /\ e.second.withTimeStamps
               /\ Cardinality(WrittenSlots(ts)) = Min(k, L)
               /\ WrittenSlots(ts) = WrittenSlots(data)
               /\ \A j \in 1..L :
                    j > L - k =>
                      /\ data[j] = delivered[seqs[k - L + j]].value[i]
                      /\ ts[j] = CaptureTime(seqs[k - L + j], e.second.timeStamp[i].name)
  /\ ~_enbaleTimeStamps =>
       /\ \A loc \in Locs :
            ~Entry(loc).second.withTimeStamps /\ Entry(loc).second.timeStamp = << >>
       /\ \A j \in 1..Len(written) : ~ends_with(written[j].name, "_timeStamps")

\* Two updates of one variable at different clock readings: the timestamp
\* buffer holds both readings beside the two values.
C12_Witness ==
  /\ pc = "readAny"
  /\ _enbaleTimeStamps
  /\ _historyLength = 3
  /\ \E loc \in Locs :
       /\ Entry(loc).second.timeStamp[1].buf = << Default, 1, 2 >>
       /\ Entry(loc).second.data[1].buf = << Default, 2, 1 >>

----------------------------------------------------------------------------
\* The registry before any variable is registered.
EmptyRegistry ==
  [ overall |-> {}, acc |-> [k \in KindSet |-> << >>],
    names |-> [k \in KindSet |-> << >>], nextId |-> 1, err |-> FALSE ]

\* The pair getAccessor appended to the list of kind UserType of r.
Appended(r, UserType) == r.acc[UserType][Len(r.acc[UserType])]

\* C13  Output naming: a variable of one element owns the data output
\* <prefix>/<name>, a variable of n > 1 elements the data outputs
\* <prefix>/<name>_<i>, i = 0..n-1; with time stamps every data output has a
\* timestamp output of its name plus _timeStamps; all inputs and outputs carry
\* one internal tag, and what registering a variable creates does not depend
\* on what was registered before.
C13_OutputNaming ==
  /\ \A loc \in Locs :
       LET e == Entry(loc)
           n == e.first.nElements
           base == ("/" \o _prefix) \o e.first.name
       IN  /\ n = 1 => Len(e.second.data) = 1 /\ e.second.data[1].name = base
           /\ n > 1 =>
                /\ Len(e.second.data) = n
                /\ \A i \in 1..n : e.second.data[i].name = (base \o "_") \o Digits[i]
           /\ _enbaleTimeStamps =>
                /\ Len(e.second.timeStamp) = Len(e.second.data)
                /\ \A i \in 1..Len(e.second.data) :
                     e.second.timeStamp[i].name = e.second.data[i].name \o "_timeStamps"
           /\ ~_enbaleTimeStamps => e.second.timeStamp = << >>
           /\ \A other \in Locs : Entry(other).first.tag = e.first.tag
           /\ \A i \in 1..Len(e.second.data) : e.second.data[i].tag = e.first.tag
           /\ \A i \in 1..Len(e.second.timeStamp) : e.second.timeStamp[i].tag = e.first.tag
  /\ phase \in {"init", "Preparing"} =>
       \A pv \in AllPVs :
         pv.name \notin _overallVariableList =>
           LET here == Appended(getAccessor(Registry, pv.type, pv.name, pv.length), pv.type)
               first == Appended(getAccessor(EmptyRegistry, pv.type, pv.name, pv.length), pv.type)
           IN  /\ here.second = first.second
               /\ here.first.tag = first.first.tag
               /\ here.first.name = first.first.name

\* An array variable with timestamp outputs beside a scalar variable, after
\* the main loop has written the second buffer of the array.
C13_Witness ==
  /\ phase = "Running"
  /\ _enbaleTimeStamps
  /\ \E a, b \in Locs :
       /\ Entry(a).second.data[1].name = "/History/Dummy/out"
       /\ Entry(b).first.nElements = 2
       /\ Entry(b).second.data[2].name = "/History/Array/out_1"
       /\ Entry(b).second.timeStamp[2].name = "/History/Array/out_1_timeStamps"
       /\ Entry(b).second.timeStamp[2].buf[_historyLength] # Default

----------------------------------------------------------------------------
\* C14  Tag non-match is not an error: while variables can be registered,
\* registering with the tag check a variable that does not carry the input tag
\* returns without error and leaves the name set, the name lists, the accessor
\* lists and the id counter as they are, also when the name of the variable is
\* registered already; after the constructor alone every registered variable
\* carries the input tag.
C14_TagNonMatch ==
  /\ phase \in {"init", "Preparing"} =>
       /\ \A pv \in AllPVs : \A submodule \in Submodules :
            _inputTag \notin pv.tags =>
              addVariableFromModel(Registry, pv, submodule, TRUE) = Registry
       /\ Visit(Registry, InOrder({pv \in AllPVs : _inputTag \notin pv.tags}), "", TRUE)
            = Registry
  /\ (phase # "init" /\ nAddSource = 0) =>
       \A name \in _overallVariableList :
         \E pv \in model : pv.name = name /\ _inputTag \in pv.tags

\* The constructor ran over a model with a variable that lacks the input tag,
\* and addSource() has registered a variable that lacks it as well.
C14_Witness ==
  /\ phase = "Preparing"
  /\ \E pv \in model : _inputTag \notin pv.tags /\ pv.name \notin _overallVariableList
  /\ \E pv \in DevicePVs : _inputTag \notin pv.tags /\ pv.name \in _overallVariableList
  /\ \E pv \in model : pv.name \in _overallVariableList

----------------------------------------------------------------------------
\* Submodule arguments for which addSource() is evaluated.
SubmoduleArgs == Submodules \cup {"Device", "Device/s"}

\* The names of the variables of the source that addSource(submodule) accepts.
Accepted(submodule) ==
  {pv.name : pv \in {d \in DevicePVs :
                       submodule = "" \/ starts_with(d.name, ("/" \o submodule) \o "/")}}

\* C15  addSource(source, submodule) registers the variables of the source
\* whatever their tags: all of them with an empty submodule, and with a
\* submodule those whose name starts with <submodule>/ and no other; a
\* variable that is not accepted is skipped without error.  (The call throws
\* when an accepted name is registered already.)
C15_AddSource ==
  /\ [](phase = "Preparing" =>
          \A submodule \in SubmoduleArgs :
            LET r == Visit(Registry, InOrder(DevicePVs), submodule, FALSE)
            IN  /\ r.err <=> Accepted(submodule) \cap _overallVariableList # {}
                /\ ~r.err =>
                     /\ r.overall = _overallVariableList \cup Accepted(submodule)
                     /\ r.nextId = nextId + Cardinality(Accepted(submodule))
                     /\ \A k \in KindSet :
                          /\ SubSeq(r.acc[k], 1, Len(_accessorListMap[k])) = _accessorListMap[k]
                          /\ \A j \in (Len(_accessorListMap[k]) + 1)..Len(r.acc[k]) :
                               r.acc[k][j].first.name \in Accepted(submodule))
  /\ [][(nAddSource' = nAddSource + 1 /\ phase' = "Preparing") =>
          \E submodule \in Submodules :
            /\ _overallVariableList' = _overallVariableList \cup Accepted(submodule)
            /\ Accepted(submodule) \cap _overallVariableList = {}]_vars

\* addSource() with a submodule registered the variable below the submodule
\* and not the other variable of the source; neither carries the input tag.
C15_Witness ==
  /\ phase = "Preparing"
  /\ nAddSource = 1
  /\ "/Device/sub/value" \in _overallVariableList
  /\ "/Device/signed32" \notin _overallVariableList
  /\ \A pv \in DevicePVs : _inputTag \notin pv.tags

----------------------------------------------------------------------------
\* The names of the variables of the model that carry the input tag.
Tagged(pvs) == {pv.name : pv \in {p \in pvs : _inputTag \in p.tags}}

DeviceNames == {pv.name : pv \in DevicePVs}

\* C16  Constructor discovery is a snapshot: the constructor registers exactly
\* the variables that are in the model when it runs and carry the input tag;
\* afterwards the set of variables registered by tag never changes, and
\* defining a module leaves the registry as it is.
C16_ConstructorSnapshot ==
  /\ [][(phase = "init" /\ phase' # "init") =>
          /\ phase' = "Preparing"
          /\ _overallVariableList' = Tagged(model)]_vars
  /\ [][phase # "init" =>
          _overallVariableList' \ DeviceNames = _overallVariableList \ DeviceNames]_vars
  /\ [][model' # model => registry' = registry]_vars

\* The module runs with the one tagged variable that was in the model when
\* the constructor ran; a tagged variable of a module defined later is not
\* registered.
C16_Witness ==
  /\ phase = "Running"
  /\ delivered # << >>
  /\ _overallVariableList = {"/Dummy/out"}
  /\ "/Array/out" \in Tagged(model)

----------------------------------------------------------------------------
\* addSource(submodule) throws in the current state.
addSourceThrows(submodule) == Visit(Registry, InOrder(DevicePVs), submodule, FALSE).err

\* C17  Configuration errors abort the start-up: a constructor or an
\* addSource() that meets a registered name, and a prepare() that finds the
\* registry empty, end in the failed state; no step leaves the failed state, so
\* the module does not run and writes nothing after the error, whatever was
\* registered before it.
C17_ConfigurationErrorsAbort ==
  /\ [][phase = "Failed" => (phase' = "Failed" /\ written' = written)]_vars
  /\ [][(phase = "init" /\ phase' # "init"
           /\ Visit(Registry, InOrder({pv \in model : _inputTag \in pv.tags}), "", TRUE).err)
          => phase' = "Failed"]_vars
  /\ [][(phase = "Preparing" /\ nAddSource' = nAddSource + 1
           /\ \E submodule \in Submodules : addSourceThrows(submodule))
          => (phase' = "Failed" /\ written' = written)]_vars
  /\ [][(phase = "Preparing" /\ phase' # "Preparing" /\ getNumberOfVariables = 0)
          => phase' = "Failed"]_vars
  /\ [](phase = "Failed" => (written = << >> /\ delivered = << >> /\ queue = << >>))

\* addSource() threw after it had registered one variable of the device beside
\* the variable the constructor registered; nothing was written.
C17_Witness ==
  /\ phase = "Failed"
  /\ nAddSource = 2
  /\ {"/Dummy/out", "/Device/signed32", "/Device/sub/value"} \subseteq _overallVariableList
  /\ written = << >>

----------------------------------------------------------------------------
\* A module with buffers of two elements, with and without time stamps: the
\* length of the buffers has no part in the scheduling of the main loop.
InitLive == Init /\ _historyLength = 2

\* The main loop is a thread of its own: a readAny() that can return does
\* return, and Update goes on to the next element.
SpecLive == InitLive /\ [][Next]_vars /\ WF_vars(readAny) /\ WF_vars(UpdateElement)

\* All notifications sent so far, in the order they were sent.
Notified == delivered \o queue

\* The buffer the main loop wrote for the n-th notification to the output name.
Published(n, name) ==
  {written[j].value : j \in {w \in WritesOf(n) : written[w].name = name}}

\* The n-th notification was processed: every data output of its variable was
\* written once with the value of its element in the newest slot, and every
\* timestamp output was written once.
Processed(n) ==
  /\ n <= Len(delivered)
  /\ LET e == EntryOfId(delivered[n].id)
     IN  /\ \A i \in 1..e.first.nElements :
              \E buf \in Published(n, e.second.data[i].name) :
                buf[Len(buf)] = delivered[n].value[i]
         /\ _enbaleTimeStamps =>
              \A i \in 1..e.first.nElements :
                Published(n, e.second.timeStamp[i].name) # {}
         /\ Cardinality(WritesOf(n)) = WritesPerUpdate(delivered[n].id)

\* C18  Liveness of the update loop, as claimed: with the main loop scheduled
\* fairly, every notification sent for a registered variable of the running
\* module is eventually processed: all data buffers of the variable (and its
\* timestamp buffers, with time stamps) are written with the value in the
\* newest slot.
C18_UpdateLiveness ==
  \A n \in 1..MaxNotifications :
    (phase = "Running" /\ Len(Notified) >= n) ~> Processed(n)

\* C18  Liveness of the update loop, amended: with the main loop scheduled
\* fairly, every notification sent for a registered variable is eventually
\* processed once the first value of every registered variable has arrived,
\* that is, once the loop of mainLoop() has started.
C18_UpdateLivenessStarted ==
  \A n \in 1..MaxNotifications :
    (phase = "Running" /\ InitialValuesRead /\ Len(Notified) >= n) ~> Processed(n)

\* Two notifications, the second for an array variable, were sent and are
\* processed.
C18_Witness ==
  /\ Len(delivered) = 2
  /\ queue = << >>
  /\ EntryOfId(delivered[2].id).first.nElements = 2
  /\ Processed(1)
  /\ Processed(2)

----------------------------------------------------------------------------
\* No buffer was rotated and no output written since prepare().
NothingRecorded ==
  /\ delivered = << >>
  /\ \A j \in 1..Len(written) : written[j].seq = 0
  /\ \A loc \in Locs :
       /\ \A i \in 1..Len(Entry(loc).second.data) :
            Entry(loc).second.data[i].buf = NewBuffer(_historyLength)
       /\ \A i \in 1..Len(Entry(loc).second.timeStamp) :
            Entry(loc).second.timeStamp[i].buf = NewBuffer(_historyLength)

\* C19  The main loop waits for the first values: while a registered variable
\* has not been written once, the loop has processed no notification, also
\* when values of other variables are waiting, and every history buffer still
\* holds its defaults; the first slot of a buffer is filled only after every
\* registered variable was written.
C19_BlocksOnFirstValues ==
  ~InitialValuesRead => (NothingRecorded /\ pc = "readAny" /\ todo = << >>)

\* One variable was written twice, its second value waits in the queue, and
\* another variable was never written: nothing is recorded.
C19_Witness ==
  /\ phase = "Running"
  /\ queue # << >>
  /\ \E loc \in Locs : Entry(loc).first.getId \notin hasInitialValue
  /\ \E loc \in Locs : /\ Entry(loc).first.getId \in hasInitialValue
                       /\ Entry(loc).first.getId = Head(queue).id
  /\ NothingRecorded

----------------------------------------------------------------------------
\* C20  Two phases: the module is in the preparing phase from its construction
\* on and enters the running phase only by a prepare() that finds variables and
\* writes every output; before that no notification is taken or processed,
\* no buffer rotated and no output written; the running phase is never left, neither
\* back to the preparing phase nor by the loop ending.
C20_TwoPhases ==
  /\ [][(phase = "init" /\ phase' # "init") => phase' \in {"Preparing", "Failed"}]_vars
  /\ [][(phase # "Running" /\ phase' = "Running") =>
          /\ phase = "Preparing"
          /\ getNumberOfVariables > 0
          /\ registry' = registry
          /\ Len(written') = Len(written) + Cardinality(UNION {OutputNames(Entry(loc)) : loc \in Locs})]_vars
  /\ [](phase \in {"init", "Preparing"} =>
          (NothingRecorded /\ written = << >> /\ pc = "readAny" /\ todo = << >>))
  /\ [][phase = "Running" => phase' = "Running"]_vars
  /\ [](phase = "Running" => pc \in {"readAny", "update"})

\* The loop has processed two notifications and waits for the next one.
C20_Witness ==
  /\ phase = "Running"
  /\ pc = "readAny"
  /\ queue = << >>
  /\ Len(delivered) = 2
  /\ Cardinality(WritesOf(2)) >= 1

----------------------------------------------------------------------------
\* What registration fixes of an entry: the input, its element count and the
\* names of its outputs.
Shape(e) ==
  [ id |-> e.first.getId, name |-> e.first.name, nElements |-> e.first.nElements,
    data |-> [i \in 1..Len(e.second.data) |-> e.second.data[i].name],
    timeStamp |-> [i \in 1..Len(e.second.timeStamp) |-> e.second.timeStamp[i].name],
    withTimeStamps |-> e.second.withTimeStamps ]

----------------------------------------------------------------------------
\* Every data and timestamp buffer of the entry e holds L defaults.
AllDefaults(e) ==
  /\ \A i \in 1..Len(e.second.data) :
       e.second.data[i].buf = [j \in 1.._historyLength |-> Default]
  /\ \A i \in 1..Len(e.second.timeStamp) :
       e.second.timeStamp[i].buf = [j \in 1.._historyLength |-> Default]

\* The data and timestamp buffers of the entry e.
Buffers(e) ==
  << [i \in 1..Len(e.second.data) |-> e.second.data[i].buf],
     [i \in 1..Len(e.second.timeStamp) |-> e.second.timeStamp[i].buf] >>

\* C22  Buffers are written by the update step only: the constructor,
\* addSource() and prepare() leave every buffer at L defaults, every buffer
\* holds L defaults until the first notification is taken, and a step changes
\* the buffers of a variable only when the module runs and Update is at work
\* on a notification for that variable.
C22_BuffersWrittenByUpdateOnly ==
  /\ [](phase # "Running" => \A loc \in Locs : AllDefaults(Entry(loc)))
  /\ [](delivered = << >> => \A loc \in Locs : AllDefaults(Entry(loc)))
  /\ [][\A loc \in Locs :
          Buffers(Entry(loc))' # Buffers(Entry(loc)) =>
            /\ phase = "Running"
            /\ pc = "update"
            /\ CurrentId = Entry(loc).first.getId
            /\ Head(todo).kind = loc[1] /\ Head(todo).idx = loc[2]]_vars

\* prepare() has published the buffers of two variables with time stamps, a
\* value is queued, and every buffer still holds its defaults.
C22_Witness ==
  /\ phase = "Running"
  /\ _enbaleTimeStamps
  /\ InitialValuesRead
  /\ queue # << >>
  /\ delivered = << >>
  /\ Cardinality(Locs) = 2
  /\ \A loc \in Locs : AllDefaults(Entry(loc))

----------------------------------------------------------------------------
\* The total length of the lists of a per-kind table.
RECURSIVE TotalLen(_, _)
TotalLen(table, t) ==
  IF t > Len(Kinds) THEN 0 ELSE Len(table[Kinds[t]]) + TotalLen(table, t + 1)

\* C23  The bookkeeping of the registry is consistent: getNumberOfVariables()
\* is the size of the name set, the total number of names in the name lists
\* and the total number of pairs in the accessor lists; every registered name
\* is in the name list of one kind only, once, at the position of its pair in
\* the accessor list of that kind.
C23_BookkeepingConsistent ==
  /\ getNumberOfVariables = Cardinality(_overallVariableList)
  /\ getNumberOfVariables = TotalLen(_nameListMap, 1)
  /\ getNumberOfVariables = TotalLen(_accessorListMap, 1)
  /\ getNumberOfVariables = nextId - 1
  /\ \A name \in _overallVariableList :
       \E k \in KindSet :
         /\ \E j \in 1..Len(_nameListMap[k]) :
              /\ _nameListMap[k][j] = name
              /\ j <= Len(_accessorListMap[k])
              /\ _accessorListMap[k][j].first.name = name
              /\ \A other \in 1..Len(_nameListMap[k]) :
                   _nameListMap[k][other] = name => other = j
         /\ \A h \in KindSet \ {k} :
              \A j \in 1..Len(_nameListMap[h]) : _nameListMap[h][j] # name
  /\ \A k \in KindSet : \A j \in 1..Len(_nameListMap[k]) :
       _nameListMap[k][j] \in _overallVariableList

\* Variables of both kinds are registered, by the constructor and by
\* addSource(), and prepare() has not run.
C23_Witness ==
  /\ phase = "Preparing"
  /\ nAddSource = 1
  /\ getNumberOfVariables = 4
  /\ Len(_nameListMap["int32"]) = 3
  /\ Len(_nameListMap["double"]) = 1

----------------------------------------------------------------------------
\* C24  The out-of-range path is unreachable: every entry has as many data
\* buffers as its input has elements, and as many timestamp buffers when it
\* records time stamps; every element index Update still has to process is
\* within both, and Update never throws.
C24_IndexInRange ==
  /\ phase # "Aborted"
  /\ \A loc \in Locs :
       /\ Len(Entry(loc).second.data) = Entry(loc).first.nElements
       /\ Entry(loc).second.withTimeStamps =>
            Len(Entry(loc).second.timeStamp) = Entry(loc).first.nElements
  /\ \A n \in 1..Len(todo) :
       LET e == Entry(<<todo[n].kind, todo[n].idx>>)
       IN  /\ todo[n].i + 1 \in 1..Len(e.second.data)
           /\ e.second.withTimeStamps => todo[n].i + 1 \in 1..Len(e.second.timeStamp)

\* Update is at the second element of an array variable that records time
\* stamps.
C24_Witness ==
  /\ phase = "Running"
  /\ pc = "update"
  /\ Head(todo).i = 1
  /\ Entry(<<Head(todo).kind, Head(todo).idx>>).second.withTimeStamps
  /\ Len(Entry(<<Head(todo).kind, Head(todo).idx>>).second.timeStamp) = 2

----------------------------------------------------------------------------
\* C25  The empty registry fails at prepare(), not at construction: a
\* constructor that finds no variable with the input tag succeeds and leaves
\* the registry empty; prepare() throws exactly when the registry is empty at
\* that moment, and succeeds when addSource() has registered variables since
\* the construction.
C25_EmptyRegistryFailsAtPrepare ==
  /\ [][(phase = "init" /\ phase' # "init" /\ Tagged(model) = {}) =>
          (phase' = "Preparing" /\ getNumberOfVariables' = 0)]_vars
  /\ [][(phase = "Preparing" /\ phase' # "Preparing" /\ nAddSource' = nAddSource) =>
          /\ phase' = "Failed" <=> getNumberOfVariables = 0
          /\ phase' = "Running" <=> getNumberOfVariables > 0]_vars
  /\ [](phase = "Running" => getNumberOfVariables > 0)

\* No variable of the model carries the input tag, addSource() registered the
\* variables of the device, and prepare() succeeded.
C25_Witness ==
  /\ phase = "Running"
  /\ model # {}
  /\ Tagged(model) = {}
  /\ nAddSource = 1
  /\ _overallVariableList = DeviceNames
  /\ written # << >>

----------------------------------------------------------------------------
\* Names of variables a model can hold beside one another.
NamingNames == {"/A/out", "/A/out_0", "/A/out_timeStamps", "/A/out_0_timeStamps"}

\* Tagged variables of one or two elements with these names.
NamingPVs == {PV(n, "int32", l, {"history"}) : n \in NamingNames, l \in {1, 2}}

\* One call of the visitor of the constructor's visit: the visit presents a
\* variable of the model, under a name it has not presented before, and the
\* visitor registers it.
VisitVariable(pv) ==
  /\ phase = "init"
  /\ \A other \in model : other.name # pv.name
  /\ model' = model \cup {pv}
  /\ LET r == addVariableFromModel(Registry, pv, "", TRUE)
     IN  /\ SetRegistry(r)
         /\ phase' = IF r.err THEN "Failed" ELSE phase
  /\ UNCHANGED <<config, dataFaultCounter, engine, nAddSource>>

NextVisit == \E pv \in NamingPVs : VisitVariable(pv)

\* The constructor's visit of a model whose variables have the names above.
SpecVisit == Init /\ [][NextVisit]_vars

\* The outputs of the registry: entry, data or timestamp vector, index.
OutputSlots ==
  {s \in Locs \X {"data", "timeStamp"} \X (1..2) :
     s[3] <= Len(Entry(s[1]).second[s[2]])}

OutputName(s) == Entry(s[1]).second[s[2]][s[3]].name

\* C26  Generated output names are pairwise distinct: no two outputs of the
\* registered variables, data or timestamp, of one variable or of two, have
\* the same name.
C26_DistinctOutputNames ==
  \A a, b \in OutputSlots : a # b => OutputName(a) # OutputName(b)

----------------------------------------------------------------------------
\* The candidate pv passes the tag filter and the submodule filter.
PassesFilters(pv, submodule, checkTag) ==
  /\ checkTag => _inputTag \in pv.tags
  /\ submodule = "" \/ starts_with(pv.name, ("/" \o submodule) \o "/")

\* C27  The filters come before the collision check: while variables can be
\* registered, a candidate that lacks the input tag (with the tag check) or
\* lies outside the submodule is skipped without error and without any change,
\* also when its name is registered; registration throws exactly for a
\* candidate that passes both filters and whose name is registered.
C27_FiltersBeforeCollision ==
  phase \in {"init", "Preparing"} =>
    \A pv \in AllPVs : \A submodule \in SubmoduleArgs : \A checkTag \in BOOLEAN :
      LET r == addVariableFromModel(Registry, pv, submodule, checkTag)
      IN  /\ ~PassesFilters(pv, submodule, checkTag) => r = Registry
          /\ r.err <=> (PassesFilters(pv, submodule, checkTag)
                          /\ pv.name \in _overallVariableList)
          /\ (PassesFilters(pv, submodule, checkTag) /\ pv.name \notin _overallVariableList)
               => r.overall = _overallVariableList \cup {pv.name}

\* Both variables of the device are registered while variables can still be
\* registered: /Device/signed32 is a registered candidate that lacks the input
\* tag and lies outside the submodule Device/sub.
C27_Witness ==
  /\ phase = "Preparing"
  /\ DeviceNames \subseteq _overallVariableList
  /\ \E pv \in DevicePVs :
       /\ pv.name \in _overallVariableList
       /\ ~PassesFilters(pv, "Device/sub", FALSE)
       /\ ~PassesFilters(pv, "", TRUE)

----------------------------------------------------------------------------
\* The history of values that buffer i of the entry at loc holds when the
\* notifications at the positions seqs went through it.
DataHistory(loc, i, seqs) ==
  History(_historyLength, [n \in 1..Len(seqs) |-> delivered[seqs[n]].value[i]])

\* C28  The buffers of a variable agree when the loop is at rest: whenever the
\* loop waits in readAny(), and at any time for a variable Update is not at
\* work on, every data buffer and every timestamp buffer of the variable was
\* written once for each notification taken for the variable, and slot j of
\* every buffer belongs to the same notification; the buffers of a variable
\* differ in this by one notification at most, and only while Update is at
\* work on it.
C28_ConsistentAtRest ==
  \A loc \in Locs :
    LET e == Entry(loc)
        seqs == SeqsFor(e.first.getId)
        k == Len(seqs)
        atRest == pc = "readAny" \/ CurrentId # e.first.getId
    IN  /\ atRest =>
             /\ \A i \in 1..Len(e.second.data) :
                  /\ MainLoopWrites(e.second.data[i].name) = k
                  /\ e.second.data[i].buf = DataHistory(loc, i, seqs)
             /\ \A i \in 1..Len(e.second.timeStamp) :
                  /\ MainLoopWrites(e.second.timeStamp[i].name) = k
                  /\ WrittenSlots(e.second.timeStamp[i].buf)
                       = WrittenSlots(e.second.data[1].buf)
        /\ ~atRest =>
             /\ \A i \in 1..Len(e.second.data) :
                  MainLoopWrites(e.second.data[i].name) \in {k - 1, k}
             /\ \A i \in 1..Len(e.second.timeStamp) :
                  MainLoopWrites(e.second.timeStamp[i].name)
                    = MainLoopWrites(e.second.data[i].name)
             /\ \A i, j \in 1..Len(e.second.data) :
                  i < j => MainLoopWrites(e.second.data[i].name)
                             >= MainLoopWrites(e.second.data[j].name)

\* The loop is at rest after two notifications for an array variable with
\* time stamps: each of its four buffers was written twice.
C28_Witness ==
  /\ pc = "readAny"
  /\ _enbaleTimeStamps
  /\ \E loc \in Locs :
       /\ Entry(loc).first.nElements = 2
       /\ Len(SeqsFor(Entry(loc).first.getId)) = 2
       /\ \A name \in OutputNames(Entry(loc)) : MainLoopWrites(name) = 2

====
